---- MODULE Spec2Model ----
(***************************************************************************)
(* Model of health.go of the RocketMQ plugin: ConnectionManager (periodic  *)
(* NameServer probe) and HealthChecker (periodic health verdict), their    *)
(* run loops, their reader/writer locks, stop channels and tickers, and    *)
(* the client goroutines that call the public methods.                     *)
(*                                                                         *)
(* Goroutines take one step at a time.  A step ends where the code can     *)
(* block or be observed by another goroutine: a Lock/RLock, a select, a    *)
(* network dial.  Statements between two such points run under a lock the  *)
(* goroutine holds and are taken together with the point before them.      *)
(***************************************************************************)
EXTENDS Integers, Sequences, FiniteSets

\* ---------------------------------------------------------------- bounds
MaxAddrs == 2        \* longest NameServer address list
MaxLoops == 2        \* goroutines Start() can spawn per component
MaxCalls == 2        \* public-method calls made by the client goroutines
MaxTicks == 2        \* ticks each kind of ticker delivers
MaxErrorCount == 6   \* largest errorCount a HealthChecker is given (InitErr)

\* ------------------------------------------------------ program constants
ErrorThreshold == 5  \* health.go:206  hc.errorCount < 5

None == <<"none", 0>>   \* no goroutine

ProbeLoops == {<<"probe", i>> : i \in 1..MaxLoops}   \* goroutines of cm.run
CheckLoops == {<<"check", i>> : i \in 1..MaxLoops}   \* goroutines of hc.run
Callers == {<<"client", i>> : i \in 1..2}            \* goroutines of the owning client
Threads == ProbeLoops \cup CheckLoops \cup Callers

VARIABLES
    nameServerAddrs,   \* cm.nameServerAddrs; an address is named by its position
    connMgr,           \* hc.connMgr: "cm", or "nil" for NewHealthChecker(metrics, nil)
    connected,         \* cm.connected
    cmStopCh,          \* cm.stopCh: "open" | "closed" | "panic" (closed twice)
    cmMu,              \* cm.mu
    healthy,           \* hc.healthy
    lastCheck,         \* hc.lastCheck
    errorCount,        \* hc.errorCount
    hcStopCh,          \* hc.stopCh
    hcMu,              \* hc.mu
    checkTicker,       \* hc.checkTicker: [c: a tick is buffered, stopped: Stop() was called]
    tickerC,           \* per cm.run goroutine: a tick is buffered in its ticker.C
    metrics,           \* the Metrics collaborator
    pc,                \* where each goroutine is
    idx,               \* per cm.run goroutine: position of the range loop of checkConnection
    nested,            \* per client: hc.Stop() was called from cm.Stop()
    ret,               \* per client: <<accessor, v>> while an accessor is returning v, else <<>>
    reachable,         \* addresses that accept a TCP connection during the current probe cycle
    now,               \* time.Now(), in ticks of hc.checkTicker delivered
    hist               \* history (not program state), see InitHist

vars == <<nameServerAddrs, connMgr, connected, cmStopCh, cmMu, healthy, lastCheck,
          errorCount, hcStopCh, hcMu, checkTicker, tickerC, metrics, pc, idx,
          nested, ret, reachable, now, hist>>

\* Variables no step of the model changes after construction.
config == <<nameServerAddrs, connMgr, errorCount>>

\* ------------------------------------------------------------ sync, chan
NewRWMutex == [writer |-> None, readers |-> {}]
\* CanLock that does not wait for the readers (RLock taken for Lock).
CanLockLikeRLock(mu) == mu.writer = None
\* Lock that is never taken (the Lock()/Unlock() pair left out).
LockLeftOut(mu, t) == mu
CanLock(mu) == mu.writer = None /\ mu.readers = {}
CanRLock(mu) == mu.writer = None
Lock(mu, t) == [mu EXCEPT !.writer = t]
Unlock(mu, t) == IF mu.writer = t THEN [mu EXCEPT !.writer = None] ELSE mu
RLock(mu, t) == [mu EXCEPT !.readers = @ \cup {t}]
RUnlock(mu, t) == [mu EXCEPT !.readers = @ \ {t}]

\* close(ch): closing a closed channel panics.
Close(ch) == IF ch = "open" THEN "closed" ELSE "panic"
\* case <-ch on a stop channel is ready once the channel is closed.
Closed(ch) == ch # "open"

\* -------------------------------------------------------------- Metrics
NewMetrics == [reconnectionCount |-> 0, healthCheckCount |-> 0,
               healthCheckErrors |-> 0, isHealthy |-> FALSE, lastHealthCheck |-> 0]
IncrementReconnectionCount(m) == [m EXCEPT !.reconnectionCount = @ + 1]
IncrementHealthCheckCount(m) == [m EXCEPT !.healthCheckCount = @ + 1]
IncrementHealthCheckErrors(m) == [m EXCEPT !.healthCheckErrors = @ + 1]
UpdateLastHealthCheck(m, t) == [m EXCEPT !.lastHealthCheck = t]
SetHealthy(m, b) == [m EXCEPT !.isHealthy = b]

\* ------------------------------------------------------------- history
InitHist == [
    calls |-> 0,                 \* public-method calls made so far
    ticks |-> 0,                 \* ticks delivered by cm.run tickers
    dialLog |-> <<>>,            \* positions dialled in the current probe cycle, in order
    cmStopReturned |-> FALSE,    \* some cm.Stop() has returned
    hcStopReturned |-> FALSE,    \* some hc.Stop() has returned
    lateStart |-> {},            \* loops whose Start() came after a Stop() had returned
    stale |-> {},                \* check loops in a cycle whose IsConnected() value was overwritten since
    frBefore |-> [c \in Callers |-> 0], \* reconnectionCount when ForceReconnect got the lock
    phBefore |-> <<>>,           \* <<healthCheckCount, healthCheckErrors>> when the current check cycle began
    probed |-> FALSE,            \* some probe cycle has written connected
    hcStartCalled |-> FALSE      \* hc.Start() has been called
]

\* ---------------------------------------------------------------- Init
\* The address lists: <<>>, <<1>>, <<1, 2>>, ...  Two equal strings in a list
\* are two positions that are reachable together.
AddrLists == {[i \in 1..n |-> i] : n \in 0..MaxAddrs}

\* NewConnectionManager(metrics, addrs), which builds its HealthChecker with
\* connMgr = cm; or a HealthChecker alone, NewHealthChecker(metrics, nil).
InitBase ==
    /\ \/ connMgr = "cm" /\ nameServerAddrs \in AddrLists
       \/ connMgr = "nil" /\ nameServerAddrs = <<>>
    /\ connected = FALSE
    /\ cmStopCh = "open"
    /\ cmMu = NewRWMutex
    /\ healthy = FALSE
    /\ lastCheck = 0
    /\ hcStopCh = "open"
    /\ hcMu = NewRWMutex
    /\ checkTicker = [c |-> FALSE, stopped |-> FALSE]
    /\ tickerC = [p \in ProbeLoops |-> FALSE]
    /\ metrics = NewMetrics
    /\ pc = [t \in Threads |-> IF t \in Callers THEN "idle" ELSE "off"]
    /\ idx = [p \in ProbeLoops |-> 0]
    /\ nested = [c \in Callers |-> FALSE]
    /\ ret = [c \in Callers |-> <<>>]
    /\ reachable = {}
    /\ now = 0
    /\ hist = InitHist

Init == InitBase /\ errorCount = 0

\* The same, for a HealthChecker whose errorCount field was set by its package
\* (no method writes it).  errorCount is read only on the branch that does not
\* call IsConnected(), so it is varied where that branch is taken.
InitErr ==
    /\ InitBase
    /\ IF connMgr = "cm" /\ Len(nameServerAddrs) > 0
       THEN errorCount = 0
       ELSE errorCount \in 0..MaxErrorCount

\* ===================================================== ConnectionManager
NumAddrs == Len(nameServerAddrs)

\* Check loops that hold a value IsConnected() returned in their current cycle.
Sampled == {h \in CheckLoops : pc[h] \in {"ph_report", "ph_warn_rlock",
                                          "ph_warn_runlock", "ph_unlock"}}

\* net.DialTimeout("tcp", addr, nameServerProbeTimeout): err == nil
DialTimeout(addr, net) == addr \in net

\* AfterDial with the loop left at the first failure too (only the first
\* address decides).
AfterDialFirstOnly(ok, i, n, conn) ==
    [pc |-> "cc_unlock", idx |-> i, connected |-> ok]

\* AfterDial without the return after a success: the loop goes on.
AfterDialNoReturn(ok, i, n, conn) ==
    IF i < n THEN [pc |-> "cc_dial", idx |-> i + 1, connected |-> ok \/ conn]
    ELSE [pc |-> "cc_unlock", idx |-> i, connected |-> ok \/ conn]

\* One turn of the range loop of checkConnection, after the dial of position
\* i returned ok: what the goroutine does next and what it writes to connected.
AfterDial(ok, i, n, conn) ==
    IF ok THEN [pc |-> "cc_unlock", idx |-> i, connected |-> TRUE]
    ELSE IF i < n THEN [pc |-> "cc_dial", idx |-> i + 1, connected |-> conn]
    ELSE [pc |-> "cc_unlock", idx |-> i, connected |-> FALSE]

\* StopLeaves for a Stop() that resets the flag.
StopResets(flag) == FALSE

\* Stop() assigns no field but the stop channel (and stops the ticker): the
\* flag of its component, connected or healthy, keeps its value.
StopLeaves(flag) == flag

\* CMStopSelect without the already-stopped case.
CMStopSelectNoCheck(ch) == [ch |-> Close(ch), already |-> FALSE]

\* CMStopSelect returning after close(cm.stopCh), before healthChecker.Stop().
CMStopSelectNoHCStop(ch) ==
    [ch |-> IF Closed(ch) THEN ch ELSE Close(ch), already |-> TRUE]

\* The select of Stop(): close the stop channel unless it is closed already.
CMStopSelect(ch) ==
    IF Closed(ch) THEN [ch |-> ch, already |-> TRUE]
    ELSE [ch |-> Close(ch), already |-> FALSE]

\* A client goroutine makes the next call: it is idle and calls remain.  The
\* clients are interchangeable, so the call goes to the first idle one.
CanCall(c) ==
    /\ pc[c] = "idle" /\ hist.calls < MaxCalls
    /\ \A d \in Callers : pc[d] = "idle" => c[2] <= d[2]

\* Lowest goroutine slot of a component that Start() has not used yet.
FreeSlot(kind) ==
    LET free == {i \in 1..MaxLoops : pc[<<kind, i>>] = "off"}
    IN  IF free = {} THEN 0 ELSE CHOOSE i \in free : \A j \in free : i <= j

\* CMStart of a Start() that also starts the loop of the owned HealthChecker.
CMStartBoth(c) ==
    /\ connMgr = "cm" /\ CanCall(c)
    /\ FreeSlot("probe") # 0 /\ FreeSlot("check") # 0
    /\ LET p == <<"probe", FreeSlot("probe")>>
           h == <<"check", FreeSlot("check")>> IN
        /\ pc' = [pc EXCEPT ![p] = "cm_select", ![h] = "hc_select"]
        /\ tickerC' = [tickerC EXCEPT ![p] = FALSE]
        /\ hist' = [hist EXCEPT !.calls = @ + 1,
                                !.lateStart = IF hist.cmStopReturned THEN @ \cup {p, h} ELSE @]
    /\ UNCHANGED <<config, connected, cmStopCh, cmMu, healthy, lastCheck, hcStopCh, hcMu,
                   checkTicker, metrics, idx, nested, ret, reachable, now>>

\* cm.Start(): go cm.run(); run creates its ticker.
CMStart(c) ==
    /\ connMgr = "cm" /\ CanCall(c)
    /\ FreeSlot("probe") # 0
    /\ LET p == <<"probe", FreeSlot("probe")>> IN
        /\ pc' = [pc EXCEPT ![p] = "cm_select"]
        /\ tickerC' = [tickerC EXCEPT ![p] = FALSE]
        /\ hist' = [hist EXCEPT !.calls = @ + 1,
                                !.lateStart = IF hist.cmStopReturned THEN @ \cup {p} ELSE @]
    /\ UNCHANGED <<config, connected, cmStopCh, cmMu, healthy, lastCheck, hcStopCh, hcMu,
                   checkTicker, metrics, idx, nested, ret, reachable, now>>

\* The 30 s ticker of a cm.run goroutine delivers a tick (buffer of one).
ProbeTick(p) ==
    /\ pc[p] \notin {"off", "done"} /\ ~tickerC[p] /\ hist.ticks < MaxTicks
    /\ tickerC' = [tickerC EXCEPT ![p] = TRUE]
    /\ hist' = [hist EXCEPT !.ticks = @ + 1]
    /\ UNCHANGED <<config, connected, cmStopCh, cmMu, healthy, lastCheck, hcStopCh, hcMu,
                   checkTicker, metrics, pc, idx, nested, ret, reachable, now>>

\* cm.run: select, case <-cm.stopCh: return (the deferred ticker.Stop runs).
CMSelectStop(p) ==
    /\ pc[p] = "cm_select" /\ Closed(cmStopCh)
    /\ pc' = [pc EXCEPT ![p] = "done"]
    /\ tickerC' = [tickerC EXCEPT ![p] = FALSE]
    /\ UNCHANGED <<config, connected, cmStopCh, cmMu, healthy, lastCheck, hcStopCh, hcMu,
                   checkTicker, metrics, idx, nested, ret, reachable, now, hist>>

\* cm.run: select, case <-ticker.C: cm.checkConnection().  When both cases
\* are ready the Go runtime takes either.
CMSelectTick(p) ==
    /\ pc[p] = "cm_select" /\ tickerC[p]
    /\ pc' = [pc EXCEPT ![p] = "cc_lock"]
    /\ tickerC' = [tickerC EXCEPT ![p] = FALSE]
    /\ UNCHANGED <<config, connected, cmStopCh, cmMu, healthy, lastCheck, hcStopCh, hcMu,
                   checkTicker, metrics, idx, nested, ret, reachable, now, hist>>

\* checkConnection: cm.mu.Lock(), then the empty-list case or the first dial
\* starts.  The network state of this probe cycle is drawn here.
CCLock(p) ==
    /\ pc[p] = "cc_lock" /\ CanLock(cmMu)
    /\ cmMu' = Lock(cmMu, p)
    /\ reachable' \in SUBSET (1..NumAddrs)
    /\ IF NumAddrs = 0
       THEN /\ connected' = TRUE
            /\ pc' = [pc EXCEPT ![p] = "cc_unlock"]
            /\ idx' = [idx EXCEPT ![p] = 0]
            /\ hist' = [hist EXCEPT !.dialLog = <<>>, !.stale = Sampled, !.probed = TRUE]
       ELSE /\ connected' = connected
            /\ pc' = [pc EXCEPT ![p] = "cc_dial"]
            /\ idx' = [idx EXCEPT ![p] = 1]
            /\ hist' = [hist EXCEPT !.dialLog = <<>>]
    /\ UNCHANGED <<config, cmStopCh, healthy, lastCheck, hcStopCh, hcMu, checkTicker,
                   tickerC, metrics, nested, ret, now>>

\* checkConnection: the dial of position idx returns.
CCDial(p) ==
    /\ pc[p] = "cc_dial"
    /\ LET ok == DialTimeout(nameServerAddrs[idx[p]], reachable)
           nx == AfterDial(ok, idx[p], NumAddrs, connected)
       IN  /\ pc' = [pc EXCEPT ![p] = nx.pc]
           /\ idx' = [idx EXCEPT ![p] = nx.idx]
           /\ connected' = nx.connected
           /\ hist' = [hist EXCEPT !.dialLog = Append(@, idx[p]),
                                   !.stale = IF nx.pc = "cc_unlock" THEN Sampled ELSE @,
                                   !.probed = @ \/ nx.pc = "cc_unlock"]
    /\ UNCHANGED <<config, cmStopCh, cmMu, healthy, lastCheck, hcStopCh, hcMu, checkTicker,
                   tickerC, metrics, nested, ret, reachable, now>>

\* checkConnection: the deferred cm.mu.Unlock(); back to the select of run.
CCUnlock(p) ==
    /\ pc[p] = "cc_unlock"
    /\ cmMu' = Unlock(cmMu, p)
    /\ pc' = [pc EXCEPT ![p] = "cm_select"]
    /\ idx' = [idx EXCEPT ![p] = 0]
    /\ reachable' = {}
    /\ hist' = [hist EXCEPT !.dialLog = <<>>]
    /\ UNCHANGED <<config, connected, cmStopCh, healthy, lastCheck, hcStopCh, hcMu,
                   checkTicker, tickerC, metrics, nested, ret, now>>

\* cm.Stop(): the call is made; it waits for cm.mu.Lock().
CallCMStop(c) ==
    /\ connMgr = "cm" /\ CanCall(c)
    /\ pc' = [pc EXCEPT ![c] = "cs_lock"]
    /\ hist' = [hist EXCEPT !.calls = @ + 1]
    /\ UNCHANGED <<config, connected, cmStopCh, cmMu, healthy, lastCheck, hcStopCh, hcMu,
                   checkTicker, tickerC, metrics, idx, nested, ret, reachable, now>>

\* cm.Stop(): cm.mu.Lock() and the select.  Already stopped: return (the
\* deferred unlock is next); otherwise close(cm.stopCh) and call
\* cm.healthChecker.Stop() with cm.mu held.
CSLock(c) ==
    /\ pc[c] = "cs_lock" /\ CanLock(cmMu)
    /\ cmMu' = Lock(cmMu, c)
    /\ LET s == CMStopSelect(cmStopCh) IN
        /\ cmStopCh' = s.ch
        /\ pc' = [pc EXCEPT ![c] = IF s.already THEN "cs_unlock" ELSE "hs_lock"]
        /\ nested' = [nested EXCEPT ![c] = ~s.already]
    /\ connected' = StopLeaves(connected)
    /\ UNCHANGED <<config, healthy, lastCheck, hcStopCh, hcMu, checkTicker,
                   tickerC, metrics, idx, ret, reachable, now, hist>>

\* cm.Stop(): the deferred cm.mu.Unlock(); the call returns.
CSUnlock(c) ==
    /\ pc[c] = "cs_unlock"
    /\ cmMu' = Unlock(cmMu, c)
    /\ pc' = [pc EXCEPT ![c] = "idle"]
    /\ nested' = [nested EXCEPT ![c] = FALSE]
    /\ hist' = [hist EXCEPT !.cmStopReturned = TRUE]
    /\ UNCHANGED <<config, connected, cmStopCh, healthy, lastCheck, hcStopCh, hcMu,
                   checkTicker, tickerC, metrics, idx, ret, reachable, now>>

\* cm.IsConnected(): the call is made; it waits for cm.mu.RLock().
CallIsConnected(c) ==
    /\ connMgr = "cm" /\ CanCall(c)
    /\ pc' = [pc EXCEPT ![c] = "ic_rlock"]
    /\ hist' = [hist EXCEPT !.calls = @ + 1]
    /\ UNCHANGED <<config, connected, cmStopCh, cmMu, healthy, lastCheck, hcStopCh, hcMu,
                   checkTicker, tickerC, metrics, idx, nested, ret, reachable, now>>

\* cm.IsConnected(): cm.mu.RLock(); the return value is read.
ICRLock(c) ==
    /\ pc[c] = "ic_rlock" /\ CanRLock(cmMu)
    /\ cmMu' = RLock(cmMu, c)
    /\ ret' = [ret EXCEPT ![c] = <<"IsConnected", connected>>]
    /\ pc' = [pc EXCEPT ![c] = "ic_runlock"]
    /\ UNCHANGED <<config, connected, cmStopCh, healthy, lastCheck, hcStopCh, hcMu,
                   checkTicker, tickerC, metrics, idx, nested, reachable, now, hist>>

\* cm.IsConnected(): the deferred cm.mu.RUnlock(); the call returns.
ICRUnlock(c) ==
    /\ pc[c] = "ic_runlock"
    /\ cmMu' = RUnlock(cmMu, c)
    /\ ret' = [ret EXCEPT ![c] = <<>>]
    /\ pc' = [pc EXCEPT ![c] = "idle"]
    /\ UNCHANGED <<config, connected, cmStopCh, healthy, lastCheck, hcStopCh, hcMu,
                   checkTicker, tickerC, metrics, idx, nested, reachable, now, hist>>

\* ForceReconnectBody without the counter.
ForceReconnectBodyNoCount(conn, m) == [connected |-> FALSE, metrics |-> m]

\* What ForceReconnect writes with cm.mu held.
ForceReconnectBody(conn, m) ==
    [connected |-> FALSE, metrics |-> IncrementReconnectionCount(m)]

\* cm.ForceReconnect(): the call is made; it waits for cm.mu.Lock().
CallForceReconnect(c) ==
    /\ connMgr = "cm" /\ CanCall(c)
    /\ pc' = [pc EXCEPT ![c] = "fr_lock"]
    /\ hist' = [hist EXCEPT !.calls = @ + 1]
    /\ UNCHANGED <<config, connected, cmStopCh, cmMu, healthy, lastCheck, hcStopCh, hcMu,
                   checkTicker, tickerC, metrics, idx, nested, ret, reachable, now>>

\* cm.ForceReconnect(): cm.mu.Lock().
FRLock(c) ==
    /\ pc[c] = "fr_lock" /\ CanLock(cmMu)
    /\ cmMu' = Lock(cmMu, c)
    /\ pc' = [pc EXCEPT ![c] = "fr_body"]
    /\ hist' = [hist EXCEPT !.frBefore[c] = metrics.reconnectionCount]
    /\ UNCHANGED <<config, connected, cmStopCh, healthy, lastCheck, hcStopCh, hcMu,
                   checkTicker, tickerC, metrics, idx, nested, ret, reachable, now>>

\* cm.ForceReconnect(): connected = false; IncrementReconnectionCount(); log.
FRBody(c) ==
    /\ pc[c] = "fr_body"
    /\ LET b == ForceReconnectBody(connected, metrics) IN
        /\ connected' = b.connected
        /\ metrics' = b.metrics
    /\ pc' = [pc EXCEPT ![c] = "fr_unlock"]
    /\ hist' = [hist EXCEPT !.stale = Sampled]
    /\ UNCHANGED <<config, cmStopCh, cmMu, healthy, lastCheck, hcStopCh, hcMu,
                   checkTicker, tickerC, idx, nested, ret, reachable, now>>

\* cm.ForceReconnect(): the deferred cm.mu.Unlock(); the call returns.
FRUnlock(c) ==
    /\ pc[c] = "fr_unlock"
    /\ cmMu' = Unlock(cmMu, c)
    /\ pc' = [pc EXCEPT ![c] = "idle"]
    /\ hist' = [hist EXCEPT !.frBefore[c] = 0]
    /\ UNCHANGED <<config, connected, cmStopCh, healthy, lastCheck, hcStopCh, hcMu,
                   checkTicker, tickerC, metrics, idx, nested, ret, reachable, now>>

\* ========================================================= HealthChecker
\* The select of hc.Stop(): close the stop channel unless it is closed already.
HCStopSelect(ch) ==
    IF Closed(ch) THEN [ch |-> ch, already |-> TRUE]
    ELSE [ch |-> Close(ch), already |-> FALSE]

\* UsesProbe with the length test inverted.
UsesProbeInverted(cm, addrs) == cm # "nil" /\ Len(addrs) = 0

\* UsesProbe of a check that always takes the error-count branch.
UsesProbeNever(cm, addrs) == FALSE

\* Heuristic with the comparison turned round.
HeuristicInverted(ec) == ec >= ErrorThreshold

\* Heuristic with the threshold off by one.
HeuristicOffByOne(ec) == ec <= ErrorThreshold

\* Report that counts an error in every cycle.
ReportAlwaysError(m, h) == IncrementHealthCheckErrors(SetHealthy(m, h))

\* performHealthCheck: what lines 212-216 tell the Metrics about the verdict h.
Report(m, h) ==
    IF h THEN SetHealthy(m, TRUE)
    ELSE IncrementHealthCheckErrors(SetHealthy(m, FALSE))

\* performHealthCheck: health comes from connMgr.IsConnected() (line 204).
UsesProbe(cm, addrs) == cm # "nil" /\ Len(addrs) > 0

\* performHealthCheck: the error-count heuristic (lines 206-210).
Heuristic(ec) == ec < ErrorThreshold

\* hc.Start(): go hc.run().
HCStart(c) ==
    /\ CanCall(c)
    /\ FreeSlot("check") # 0
    /\ LET h == <<"check", FreeSlot("check")>> IN
        /\ pc' = [pc EXCEPT ![h] = "hc_select"]
        /\ hist' = [hist EXCEPT !.calls = @ + 1,
                                !.hcStartCalled = TRUE,
                                !.lateStart = IF hist.hcStopReturned THEN @ \cup {h} ELSE @]
    /\ UNCHANGED <<config, connected, cmStopCh, cmMu, healthy, lastCheck, hcStopCh, hcMu,
                   checkTicker, tickerC, metrics, idx, nested, ret, reachable, now>>

\* hc.checkTicker, created by NewHealthChecker, delivers a tick after another
\* 10 s (buffer of one; a tick that finds the buffer full is dropped and
\* changes nothing).
CheckTick ==
    /\ ~checkTicker.stopped /\ ~checkTicker.c /\ now < MaxTicks
    /\ checkTicker' = [checkTicker EXCEPT !.c = TRUE]
    /\ now' = now + 1
    /\ UNCHANGED <<config, connected, cmStopCh, cmMu, healthy, lastCheck, hcStopCh, hcMu,
                   tickerC, metrics, pc, idx, nested, ret, reachable, hist>>

\* hc.run: select, case <-hc.stopCh: return.
HCSelectStop(h) ==
    /\ pc[h] = "hc_select" /\ Closed(hcStopCh)
    /\ pc' = [pc EXCEPT ![h] = "done"]
    /\ UNCHANGED <<config, connected, cmStopCh, cmMu, healthy, lastCheck, hcStopCh, hcMu,
                   checkTicker, tickerC, metrics, idx, nested, ret, reachable, now, hist>>

\* hc.run: select, case <-hc.checkTicker.C: hc.performHealthCheck().
HCSelectTick(h) ==
    /\ pc[h] = "hc_select" /\ checkTicker.c
    /\ checkTicker' = [checkTicker EXCEPT !.c = FALSE]
    /\ pc' = [pc EXCEPT ![h] = "ph_lock"]
    /\ UNCHANGED <<config, connected, cmStopCh, cmMu, healthy, lastCheck, hcStopCh, hcMu,
                   tickerC, metrics, idx, nested, ret, reachable, now, hist>>

\* performHealthCheck: hc.mu.Lock(), the counters and lastCheck, then the
\* branch of line 204: call connMgr.IsConnected(), or decide by errorCount.
PHLock(h) ==
    /\ pc[h] = "ph_lock" /\ CanLock(hcMu)
    /\ hcMu' = Lock(hcMu, h)
    /\ metrics' = UpdateLastHealthCheck(IncrementHealthCheckCount(metrics), now)
    /\ lastCheck' = now
    /\ IF UsesProbe(connMgr, nameServerAddrs)
       THEN /\ pc' = [pc EXCEPT ![h] = "ph_ic_rlock"]
            /\ healthy' = healthy
       ELSE /\ pc' = [pc EXCEPT ![h] = "ph_report"]
            /\ healthy' = Heuristic(errorCount)
    /\ hist' = [hist EXCEPT !.phBefore = <<metrics.healthCheckCount,
                                            metrics.healthCheckErrors>>]
    /\ UNCHANGED <<config, connected, cmStopCh, cmMu, hcStopCh, checkTicker, tickerC,
                   idx, nested, ret, reachable, now>>

\* performHealthCheck, in connMgr.IsConnected(): cm.mu.RLock().
PHIsConnectedRLock(h) ==
    /\ pc[h] = "ph_ic_rlock" /\ CanRLock(cmMu)
    /\ cmMu' = RLock(cmMu, h)
    /\ pc' = [pc EXCEPT ![h] = "ph_ic_runlock"]
    /\ UNCHANGED <<config, connected, cmStopCh, healthy, lastCheck, hcStopCh, hcMu,
                   checkTicker, tickerC, metrics, idx, nested, ret, reachable, now, hist>>

\* performHealthCheck: IsConnected() returns cm.connected (RUnlock) and the
\* value is stored in hc.healthy.
PHIsConnectedReturn(h) ==
    /\ pc[h] = "ph_ic_runlock"
    /\ cmMu' = RUnlock(cmMu, h)
    /\ healthy' = connected
    /\ pc' = [pc EXCEPT ![h] = "ph_report"]
    /\ hist' = [hist EXCEPT !.stale = @ \ {h}]
    /\ UNCHANGED <<config, connected, cmStopCh, lastCheck, hcStopCh, hcMu, checkTicker,
                   tickerC, metrics, idx, nested, ret, reachable, now>>

\* performHealthCheck: lines 212-218.  Healthy: SetHealthy(true).  Unhealthy:
\* SetHealthy(false), IncrementHealthCheckErrors() and log.Warn, whose last
\* argument calls connMgr.IsConnected() when connMgr is not nil.
PHReport(h) ==
    /\ pc[h] = "ph_report"
    /\ metrics' = Report(metrics, healthy)
    /\ pc' = [pc EXCEPT ![h] = IF ~healthy /\ connMgr # "nil" THEN "ph_warn_rlock"
                                                              ELSE "ph_unlock"]
    /\ UNCHANGED <<config, connected, cmStopCh, cmMu, healthy, lastCheck, hcStopCh, hcMu,
                   checkTicker, tickerC, idx, nested, ret, reachable, now, hist>>

\* performHealthCheck, in the IsConnected() of log.Warn: cm.mu.RLock().
PHWarnRLock(h) ==
    /\ pc[h] = "ph_warn_rlock" /\ CanRLock(cmMu)
    /\ cmMu' = RLock(cmMu, h)
    /\ pc' = [pc EXCEPT ![h] = "ph_warn_runlock"]
    /\ UNCHANGED <<config, connected, cmStopCh, healthy, lastCheck, hcStopCh, hcMu,
                   checkTicker, tickerC, metrics, idx, nested, ret, reachable, now, hist>>

\* performHealthCheck, in the IsConnected() of log.Warn: RUnlock; the entry is logged.
PHWarnReturn(h) ==
    /\ pc[h] = "ph_warn_runlock"
    /\ cmMu' = RUnlock(cmMu, h)
    /\ pc' = [pc EXCEPT ![h] = "ph_unlock"]
    /\ UNCHANGED <<config, connected, cmStopCh, healthy, lastCheck, hcStopCh, hcMu,
                   checkTicker, tickerC, metrics, idx, nested, ret, reachable, now, hist>>

\* performHealthCheck: the deferred hc.mu.Unlock(); back to the select of run.
PHUnlock(h) ==
    /\ pc[h] = "ph_unlock"
    /\ hcMu' = Unlock(hcMu, h)
    /\ pc' = [pc EXCEPT ![h] = "hc_select"]
    /\ hist' = [hist EXCEPT !.stale = @ \ {h}, !.phBefore = <<>>]
    /\ UNCHANGED <<config, connected, cmStopCh, cmMu, healthy, lastCheck, hcStopCh,
                   checkTicker, tickerC, metrics, idx, nested, ret, reachable, now>>

\* hc.Stop() called by the client: the call is made; it waits for hc.mu.Lock().
CallHCStop(c) ==
    /\ CanCall(c)
    /\ pc' = [pc EXCEPT ![c] = "hs_lock"]
    /\ hist' = [hist EXCEPT !.calls = @ + 1]
    /\ UNCHANGED <<config, connected, cmStopCh, cmMu, healthy, lastCheck, hcStopCh, hcMu,
                   checkTicker, tickerC, metrics, idx, nested, ret, reachable, now>>

\* hc.Stop(): hc.mu.Lock() and the select.  Already stopped: return; otherwise
\* close(hc.stopCh) and hc.checkTicker.Stop().
HSLock(c) ==
    /\ pc[c] = "hs_lock" /\ CanLock(hcMu)
    /\ hcMu' = Lock(hcMu, c)
    /\ LET s == HCStopSelect(hcStopCh) IN
        /\ hcStopCh' = s.ch
        /\ checkTicker' = IF s.already THEN checkTicker
                          ELSE [checkTicker EXCEPT !.stopped = TRUE]
    /\ pc' = [pc EXCEPT ![c] = "hs_unlock"]
    /\ healthy' = StopLeaves(healthy)
    /\ UNCHANGED <<config, connected, cmStopCh, cmMu, lastCheck, tickerC,
                   metrics, idx, nested, ret, reachable, now, hist>>

\* hc.Stop(): the deferred hc.mu.Unlock(); the call returns, to the client or
\* into cm.Stop().
HSUnlock(c) ==
    /\ pc[c] = "hs_unlock"
    /\ hcMu' = Unlock(hcMu, c)
    /\ pc' = [pc EXCEPT ![c] = IF nested[c] THEN "cs_unlock" ELSE "idle"]
    /\ hist' = [hist EXCEPT !.hcStopReturned = TRUE]
    /\ UNCHANGED <<config, connected, cmStopCh, cmMu, healthy, lastCheck, hcStopCh,
                   checkTicker, tickerC, metrics, idx, nested, ret, reachable, now>>

\* IsHealthy / GetLastCheck / GetErrorCount: the field each returns.
HCAccessors == {"IsHealthy", "GetLastCheck", "GetErrorCount"}
HCField(a) ==
    CASE a = "IsHealthy" -> healthy
      [] a = "GetLastCheck" -> lastCheck
      [] a = "GetErrorCount" -> errorCount

\* An accessor of the HealthChecker: the call is made; it waits for hc.mu.RLock().
CallHCAccessor(c) ==
    /\ CanCall(c)
    /\ \E a \in HCAccessors : pc' = [pc EXCEPT ![c] = a]
    /\ hist' = [hist EXCEPT !.calls = @ + 1]
    /\ UNCHANGED <<config, connected, cmStopCh, cmMu, healthy, lastCheck, hcStopCh, hcMu,
                   checkTicker, tickerC, metrics, idx, nested, ret, reachable, now>>

\* An accessor of the HealthChecker: hc.mu.RLock(); the return value is read.
HARLock(c) ==
    /\ pc[c] \in HCAccessors /\ CanRLock(hcMu)
    /\ hcMu' = RLock(hcMu, c)
    /\ ret' = [ret EXCEPT ![c] = <<pc[c], HCField(pc[c])>>]
    /\ pc' = [pc EXCEPT ![c] = "ha_runlock"]
    /\ UNCHANGED <<config, connected, cmStopCh, cmMu, healthy, lastCheck, hcStopCh,
                   checkTicker, tickerC, metrics, idx, nested, reachable, now, hist>>

\* An accessor of the HealthChecker: the deferred hc.mu.RUnlock(); the call returns.
HARUnlock(c) ==
    /\ pc[c] = "ha_runlock"
    /\ hcMu' = RUnlock(hcMu, c)
    /\ ret' = [ret EXCEPT ![c] = <<>>]
    /\ pc' = [pc EXCEPT ![c] = "idle"]
    /\ UNCHANGED <<config, connected, cmStopCh, cmMu, healthy, lastCheck, hcStopCh,
                   checkTicker, tickerC, metrics, idx, nested, reachable, now, hist>>

\* ================================================================== Next
Next ==
    \/ \E c \in Callers :
        \/ CMStart(c) \/ CallCMStop(c) \/ CSLock(c) \/ CSUnlock(c)
        \/ CallIsConnected(c) \/ ICRLock(c) \/ ICRUnlock(c)
        \/ CallForceReconnect(c) \/ FRLock(c) \/ FRBody(c) \/ FRUnlock(c)
        \/ HCStart(c) \/ CallHCStop(c) \/ HSLock(c) \/ HSUnlock(c)
        \/ CallHCAccessor(c) \/ HARLock(c) \/ HARUnlock(c)
    \/ \E p \in ProbeLoops :
        \/ ProbeTick(p) \/ CMSelectStop(p) \/ CMSelectTick(p)
        \/ CCLock(p) \/ CCDial(p) \/ CCUnlock(p)
    \/ \E h \in CheckLoops :
        \/ HCSelectStop(h) \/ HCSelectTick(h) \/ PHLock(h)
        \/ PHIsConnectedRLock(h) \/ PHIsConnectedReturn(h) \/ PHReport(h)
        \/ PHWarnRLock(h) \/ PHWarnReturn(h) \/ PHUnlock(h)
    \/ CheckTick

Spec == Init /\ [][Next]_vars
SpecErr == InitErr /\ [][Next]_vars

\* A running system: cm.Start() and cm.GetHealthChecker().Start() have been
\* called once each and returned, both loops wait at their select, nothing
\* else has happened.  The two Start() calls leave one call of the budget.
InitRunning ==
    /\ connMgr = "cm" /\ nameServerAddrs \in AddrLists
    /\ errorCount = 0
    /\ connected = FALSE
    /\ cmStopCh = "open"
    /\ cmMu = NewRWMutex
    /\ healthy = FALSE
    /\ lastCheck = 0
    /\ hcStopCh = "open"
    /\ hcMu = NewRWMutex
    /\ checkTicker = [c |-> FALSE, stopped |-> FALSE]
    /\ tickerC = [p \in ProbeLoops |-> FALSE]
    /\ metrics = NewMetrics
    /\ pc = [t \in Threads |-> IF t \in Callers THEN "idle"
                               ELSE IF t = <<"probe", 1>> THEN "cm_select"
                               ELSE IF t = <<"check", 1>> THEN "hc_select"
                               ELSE "off"]
    /\ idx = [p \in ProbeLoops |-> 0]
    /\ nested = [c \in Callers |-> FALSE]
    /\ ret = [c \in Callers |-> <<>>]
    /\ reachable = {}
    /\ now = 0
    /\ hist = [InitHist EXCEPT !.hcStartCalled = TRUE, !.calls = MaxCalls - 1]

\* The steps a goroutine takes by itself once it is where it is: the Go
\* scheduler runs every runnable goroutine, a dial returns within its
\* timeout, a call that was entered goes on.  Entering a call and the arrival
\* of a tick are the environment's and are not forced.
ProbeStep(p) ==
    CMSelectStop(p) \/ CMSelectTick(p) \/ CCLock(p) \/ CCDial(p) \/ CCUnlock(p)
CheckStep(h) ==
    \/ HCSelectStop(h) \/ HCSelectTick(h) \/ PHLock(h)
    \/ PHIsConnectedRLock(h) \/ PHIsConnectedReturn(h) \/ PHReport(h)
    \/ PHWarnRLock(h) \/ PHWarnReturn(h) \/ PHUnlock(h)
ClientStep(c) ==
    \/ CSLock(c) \/ CSUnlock(c) \/ ICRLock(c) \/ ICRUnlock(c)
    \/ FRLock(c) \/ FRBody(c) \/ FRUnlock(c)
    \/ HSLock(c) \/ HSUnlock(c) \/ HARLock(c) \/ HARUnlock(c)
Fairness ==
    /\ \A p \in ProbeLoops : WF_vars(ProbeStep(p))
    /\ \A h \in CheckLoops : WF_vars(CheckStep(h))
    /\ \A c \in Callers : WF_vars(ClientStep(c))
SpecRunning == InitRunning /\ [][Next]_vars /\ Fairness

\* ================================================================ claims
\* Vocabulary of the claims.
WantsLock == [cm |-> {"cc_lock", "cs_lock", "fr_lock"}, hc |-> {"ph_lock", "hs_lock"}]
WantsRLock == [cm |-> {"ic_rlock", "ph_ic_rlock", "ph_warn_rlock"}, hc |-> HCAccessors]
Mutex(m) == IF m = "cm" THEN cmMu ELSE hcMu
Holds(t, m) == Mutex(m).writer = t \/ t \in Mutex(m).readers
\* t is blocked on mutex m: it is at an acquire that cannot be taken now.
Waits(t, m) ==
    \/ pc[t] \in WantsLock[m] /\ ~CanLock(Mutex(m))
    \/ pc[t] \in WantsRLock[m] /\ ~CanRLock(Mutex(m))
InStop(c) == pc[c] \in {"cs_lock", "hs_lock", "hs_unlock", "cs_unlock"}
InCycle(l) == pc[l] \notin {"off", "cm_select", "hc_select", "done"}
ProbeMode == connMgr = "cm" /\ NumAddrs > 0
CycleDone(h) == pc[h] = "ph_unlock"

\* C1 (as claimed): Stop() never deadlocks: no reachable state has a client
\* inside Stop() blocked on a lock whose holder is blocked on a lock that
\* client holds, so that neither can ever proceed.
C1_StopNeverDeadlocks ==
    \A c \in Callers : \A u \in Threads \ {c} : \A m, k \in {"cm", "hc"} :
        ~(InStop(c) /\ Waits(c, m) /\ Holds(u, m) /\ Waits(u, k) /\ Holds(c, k))

\* What the program keeps besides locks and goroutine positions.
Data == <<connected, cmStopCh, healthy, lastCheck, errorCount, hcStopCh, checkTicker,
          tickerC, metrics>>
\* Client c is in a Stop() call that found, or will find, its stop channel closed.
LaterStop(c) ==
    \/ pc[c] = "cs_lock" /\ Closed(cmStopCh)
    \/ pc[c] = "cs_unlock" /\ ~nested[c]
    \/ pc[c] = "hs_lock" /\ Closed(hcStopCh)

\* C2: double-stop is a safe no-op: no stop channel is ever closed twice (no
\* panic), and no step of a Stop() call that comes after the first changes
\* anything but the lock it takes and releases; a later cm.Stop() does not call
\* healthChecker.Stop() again.
C2_DoubleStopNoOp ==
    /\ [](cmStopCh # "panic" /\ hcStopCh # "panic")
    /\ [][\A c \in Callers : LaterStop(c) /\ pc'[c] # pc[c] =>
              /\ UNCHANGED Data
              /\ pc'[c] \in {"cs_unlock", "hs_unlock", "idle"}]_vars
\* C2 witness: a second cm.Stop() is returning after a first one returned.
C2_Witness ==
    \E c \in Callers : pc[c] = "cs_unlock" /\ ~nested[c] /\ hist.cmStopReturned
                         /\ cmStopCh = "closed" /\ hcStopCh = "closed"

\* C3 (as claimed): in probe mode, when a check cycle completes, healthy
\* equals connected.
C3_HealthyEqualsConnected ==
    \A h \in CheckLoops : CycleDone(h) /\ ProbeMode => healthy = connected
\* C3 (amended): in probe mode, when a check cycle completes, healthy equals
\* connected unless a probe cycle or ForceReconnect wrote connected after the
\* cycle's IsConnected() call returned.
C3_HealthyEqualsSample ==
    \A h \in CheckLoops :
        CycleDone(h) /\ ProbeMode /\ h \notin hist.stale => healthy = connected
\* C3 witness: a cycle completes healthy after a probe cycle found an address.
C3_Witness ==
    \E h \in CheckLoops :
        CycleDone(h) /\ ProbeMode /\ h \notin hist.stale /\ healthy /\ connected

\* C4: without a ConnectionManager, or with an empty address list, a completed
\* check cycle leaves healthy = (errorCount < 5), whatever connected is.
C4_FallbackHeuristic ==
    \A h \in CheckLoops :
        CycleDone(h) /\ ~ProbeMode => healthy = (errorCount < ErrorThreshold)
\* C4 witness: empty address list, connected is true, errorCount is 5, and the
\* cycle completes unhealthy.
C4_Witness ==
    \E h \in CheckLoops :
        /\ CycleDone(h) /\ connMgr = "cm" /\ NumAddrs = 0
        /\ connected /\ errorCount = ErrorThreshold /\ ~healthy

\* Some configured address accepts connections in this probe cycle.
AnyReachable == \E i \in 1..NumAddrs : nameServerAddrs[i] \in reachable
ProbeDone(p) == pc[p] = "cc_unlock"

\* C5: when a probe cycle completes, connected is true exactly when the address
\* list is empty or some address of it is reachable.
C5_ProbeOutcome ==
    \A p \in ProbeLoops : ProbeDone(p) => connected = (NumAddrs = 0 \/ AnyReachable)
\* C5 witness: only the second of two addresses is reachable; connected is true.
C5_Witness ==
    \E p \in ProbeLoops :
        ProbeDone(p) /\ NumAddrs = 2 /\ reachable = {nameServerAddrs[2]} /\ connected

\* Positions dialled so far in the probe cycle of p, the dial in progress included.
Dialled(p) ==
    IF pc[p] = "cc_dial" THEN Append(hist.dialLog, idx[p]) ELSE hist.dialLog

\* C6: within a probe cycle the addresses are dialled in list order, each at
\* most once (the k-th dial is of position k), and no dial follows the dial of
\* a reachable address.
C6_ProbeOrder ==
    \A p \in ProbeLoops : pc[p] \in {"cc_dial", "cc_unlock"} =>
        LET d == Dialled(p) IN
        /\ Len(d) <= NumAddrs
        /\ \A k \in 1..Len(d) : d[k] = k
        /\ \A k \in 1..Len(d) : \A j \in 1..(k - 1) : nameServerAddrs[d[j]] \notin reachable
\* C6 witness: both addresses are reachable and the cycle completed after one dial.
C6_Witness ==
    \E p \in ProbeLoops :
        /\ ProbeDone(p) /\ NumAddrs = 2
        /\ reachable = {nameServerAddrs[1], nameServerAddrs[2]}
        /\ hist.dialLog = <<1>>

\* C7: when ForceReconnect has run its body (before its unlock), connected is
\* false, the reconnection counter is one more than when the call took the
\* lock, and no address has been dialled.
C7_ForceReconnect ==
    \A c \in Callers : pc[c] = "fr_unlock" =>
        /\ connected = FALSE
        /\ metrics.reconnectionCount = hist.frBefore[c] + 1
        /\ hist.dialLog = <<>>
        /\ \A p \in ProbeLoops : pc[p] \notin {"cc_dial", "cc_unlock"}
\* C7 witness: ForceReconnect on a stopped ConnectionManager.
C7_Witness ==
    \E c \in Callers : pc[c] = "fr_unlock" /\ cmStopCh = "closed" /\ hist.cmStopReturned

\* C8 (as claimed): IsConnected() never blocks on I/O: while a dial is in
\* progress, a caller at the RLock of IsConnected() can take it.
C8_IsConnectedNeverWaitsForDial ==
    \A c \in Callers :
        pc[c] = "ic_rlock" /\ (\E p \in ProbeLoops : pc[p] = "cc_dial") => CanRLock(cmMu)

\* C9: once a cm.Stop() call has returned, the stop channel of the owned
\* HealthChecker is closed.
C9_StopStopsHealthChecker ==
    hist.cmStopReturned => hcStopCh = "closed" /\ checkTicker.stopped
\* C9 witness: cm.Stop() has returned, and a second cm.Stop() is returning.
C9_Witness ==
    /\ hist.cmStopReturned /\ hist.hcStopReturned
    /\ \E c \in Callers : pc[c] = "cs_unlock" /\ ~nested[c]

\* C10 (as claimed): Stopped is terminal: a loop whose Start() came after a
\* Stop() of its component had returned never runs a cycle.
C10_StoppedIsTerminal ==
    \A l \in hist.lateStart : ~InCycle(l)

\* C11: when a check cycle completes, the health-check counter is one more than
\* when the cycle began, the healthy gauge is the cycle's verdict, and the
\* error counter is one more for an unhealthy verdict and unchanged for a
\* healthy one.
C11_MetricsPerCycle ==
    \A h \in CheckLoops : CycleDone(h) =>
        /\ metrics.healthCheckCount = hist.phBefore[1] + 1
        /\ metrics.isHealthy = healthy
        /\ metrics.healthCheckErrors = hist.phBefore[2] + (IF healthy THEN 0 ELSE 1)
\* C11 witness: no ConnectionManager, errorCount 5: the cycle completes
\* unhealthy with the error counter incremented once.
C11_Witness ==
    \E h \in CheckLoops :
        /\ CycleDone(h) /\ connMgr = "nil" /\ errorCount = ErrorThreshold
        /\ ~healthy /\ metrics.healthCheckErrors = 1 /\ metrics.healthCheckCount = 1

\* A loop leaves its select for a cycle in this step.
BeginsCycle(l) == pc[l] \in {"cm_select", "hc_select"} /\ pc'[l] \in {"cc_lock", "ph_lock"}

\* C12 (as claimed): once Stop() has returned, a loop that was started before
\* leaves its select by the stop branch only: no probe cycle begins after a
\* cm.Stop() returned and no check cycle after an hc.Stop() returned.
C12_NoCycleAfterStop ==
    [][/\ \A p \in ProbeLoops \ hist.lateStart : BeginsCycle(p) => ~hist.cmStopReturned
       /\ \A h \in CheckLoops \ hist.lateStart : BeginsCycle(h) => ~hist.hcStopReturned]_vars

\* Where a loop is while the body of its cycle runs (the lock is held).
ProbeBody == {"cc_dial", "cc_unlock"}
CheckBody == {"ph_ic_rlock", "ph_ic_runlock", "ph_report", "ph_warn_rlock",
              "ph_warn_runlock", "ph_unlock"}

\* C13 (as claimed): Stop() does not wait for the cycle in progress: a Stop()
\* that arrives at its Lock() while a cycle body of its component runs can
\* take the lock (and so return) without the body ending first.
C13_StopDoesNotWaitForCycle ==
    \A c \in Callers :
        /\ pc[c] = "cs_lock" /\ (\E p \in ProbeLoops : pc[p] \in ProbeBody) => CanLock(cmMu)
        /\ pc[c] = "hs_lock" /\ (\E h \in CheckLoops : pc[h] \in CheckBody) => CanLock(hcMu)
\* C13 (amended): Stop() does not wait for the loop to exit, but it waits for a
\* cycle body that holds the lock: no cm.Stop() is past its Lock() while a
\* probe cycle body runs, and no hc.Stop() while a check cycle body runs.
C13_StopWaitsForBodyOnly ==
    \A c \in Callers :
        /\ pc[c] \in {"cs_unlock"} \/ (pc[c] \in {"hs_lock", "hs_unlock"} /\ nested[c])
              => \A p \in ProbeLoops : pc[p] \notin ProbeBody
        /\ pc[c] = "hs_unlock" => \A h \in CheckLoops : pc[h] \notin CheckBody
\* C13 witness: cm.Stop() is returning while a loop that took its tick waits
\* at the Lock() of checkConnection: that cycle runs after Stop() returned.
C13_Witness ==
    \E c \in Callers : \E p \in ProbeLoops :
        pc[c] = "cs_unlock" /\ nested[c] /\ pc[p] = "cc_lock" /\ cmStopCh = "closed"

\* C14: at most one cycle body per component runs, and whoever is where
\* connected, or healthy and lastCheck, are written holds the component's
\* lock exclusively, with no reader in.
C14_MutualExclusion ==
    /\ Cardinality({p \in ProbeLoops : pc[p] \in ProbeBody}) <= 1
    /\ Cardinality({h \in CheckLoops : pc[h] \in CheckBody}) <= 1
    /\ \A p \in ProbeLoops : pc[p] \in ProbeBody => cmMu.writer = p /\ cmMu.readers = {}
    /\ \A c \in Callers : pc[c] \in {"fr_body", "fr_unlock"} =>
            cmMu.writer = c /\ cmMu.readers = {}
    /\ \A h \in CheckLoops : pc[h] \in CheckBody => hcMu.writer = h /\ hcMu.readers = {}
\* C14 witness: two check loops exist; one runs the body, the other has taken
\* a tick and waits for the lock.
C14_Witness ==
    \E h, g \in CheckLoops : h # g /\ pc[h] \in CheckBody /\ pc[g] = "ph_lock"

\* Every loop that was started has exited.
LoopsExited == \A l \in ProbeLoops \cup CheckLoops : pc[l] \in {"off", "done"}
\* C15 (as claimed): under fair scheduling, once cm.Stop() has been invoked on
\* a running system (both loops started), the probe loop and the health-check
\* loop eventually exit, whatever cycle was in progress.
C15_LoopsTerminate == (\E c \in Callers : pc[c] = "cs_lock") ~> LoopsExited

\* Thread t takes a step.
Moved(t) == pc'[t] # pc[t]
\* C16: healthy and lastCheck change only in a step of a health-check cycle
\* (taken by the loop that holds hc.mu), and connected changes only in a step
\* of a probe cycle or in the body of ForceReconnect; Start, Stop, the
\* accessors and the steps of the other component leave them as they are.
C16_OwnershipFrame ==
    [][/\ healthy' # healthy \/ lastCheck' # lastCheck =>
            \E h \in CheckLoops : pc[h] \in CheckBody \cup {"ph_lock"} /\ Moved(h)
       /\ connected' # connected =>
            \/ \E p \in ProbeLoops : pc[p] \in ProbeBody \cup {"cc_lock"} /\ Moved(p)
            \/ \E c \in Callers : pc[c] = "fr_body" /\ Moved(c)]_vars
\* C16 witness: cm.Stop() has returned (both stop channels closed) and
\* connected still has the value true of the last probe cycle.
C16_Witness ==
    /\ hist.cmStopReturned /\ cmStopCh = "closed" /\ hcStopCh = "closed"
    /\ connected /\ \A c \in Callers : pc[c] = "idle"

\* C17: no operation writes errorCount: it is 0 in every reachable state and
\* GetErrorCount() returns 0; so without a bound ConnectionManager, or with an
\* empty address list, every completed check cycle leaves healthy true and
\* the health-check-error counter stays 0.
C17_ErrorCountNeverModified ==
    /\ errorCount = 0
    /\ \A c \in Callers :
            Len(ret[c]) = 2 /\ ret[c][1] = "GetErrorCount" => ret[c][2] = 0
    /\ ~ProbeMode =>
            /\ metrics.healthCheckErrors = 0
            /\ \A h \in CheckLoops : CycleDone(h) => healthy /\ metrics.isHealthy
\* C17 witness: in fallback mode a check cycle has completed, counted and
\* healthy, and after it GetErrorCount() is returning 0.
C17_Witness ==
    /\ ~ProbeMode /\ metrics.healthCheckCount = 1 /\ metrics.healthCheckErrors = 0
    /\ healthy /\ \A h \in CheckLoops : ~InCycle(h)
    /\ \E c \in Callers : pc[c] = "ha_runlock" /\ ret[c] = <<"GetErrorCount", 0>>

\* C18: connected is false until a probe cycle has written it, so with a
\* non-empty address list a check cycle that completes before any probe cycle
\* has written connected leaves healthy false and counts an error: every
\* cycle counted so far is counted as an error.
C18_StartupVerdict ==
    ~hist.probed =>
        /\ connected = FALSE
        /\ \A h \in CheckLoops : CycleDone(h) /\ ProbeMode =>
                /\ ~healthy
                /\ metrics.healthCheckErrors = hist.phBefore[2] + 1
                /\ metrics.healthCheckErrors = metrics.healthCheckCount
\* C18 witness: every address is reachable and the first probe cycle is
\* dialling, while a check cycle completes unhealthy with an error counted.
C18_Witness ==
    \E h \in CheckLoops : \E p \in ProbeLoops :
        /\ CycleDone(h) /\ ~hist.probed /\ pc[p] = "cc_dial"
        /\ NumAddrs > 0 /\ reachable = 1..NumAddrs
        /\ ~healthy /\ metrics.healthCheckErrors = 1

\* C19: cm.Start() starts the probe loop only.  As long as hc.Start() has not
\* been called no check loop exists, no check cycle is counted, and healthy
\* and lastCheck keep their construction values, whatever connected is.
C19_StartAsymmetry ==
    ~hist.hcStartCalled =>
        /\ \A h \in CheckLoops : pc[h] = "off"
        /\ healthy = FALSE /\ lastCheck = 0
        /\ metrics.healthCheckCount = 0 /\ metrics.isHealthy = NewMetrics.isHealthy
\* C19 witness: cm.Start() was called, a probe cycle found an address and set
\* connected, the 10 s ticker has ticked, hc.Start() was never called and
\* healthy is false.
C19_Witness ==
    /\ ~hist.hcStartCalled /\ connected /\ ~healthy /\ checkTicker.c
    /\ \E p \in ProbeLoops : pc[p] = "cm_select"
====
